---- MODULE Spec2Model ----
(***************************************************************************)
(* SimpleBlobClient: the endpoint resolution of the constructor, the blob  *)
(* operations of the facade and the error translators they use.            *)
(*                                                                         *)
(* Strings are sequences of tokens: a token is a character of a name       *)
(* ("a", "b") or an indivisible piece of text ("https://", "/", "?sig",    *)
(* "AccountName=").  A descriptor, a container name, a path segment are    *)
(* such sequences, so that startsWith, includes and split are computed.    *)
(*                                                                         *)
(* The storage backend (the service and its SDK) is the environment: a     *)
(* container that exists or not, a map from blob names to contents, and a  *)
(* fault the environment may raise on any request.                         *)
(***************************************************************************)
EXTENDS Integers, Sequences, FiniteSets, TLC

VARIABLES
  phase,            \* "new": no client yet; "ready": constructed; "failed": the constructor threw
  ctorArgs,         \* the arguments the constructor was called with
  ctorError,        \* what the constructor threw: "none", "ConfigurationError", "TypeError"
  containerName,    \* this.containerName
  options,          \* this.options
  containerClient,  \* this.containerClient
  containerExists,  \* backend: the container exists
  blobs,            \* backend: blob name -> content, or NoBlob
  last,             \* the last facade call: its arguments and how it settled
  calls,            \* the backend requests the last facade call issued, in order
  events,           \* the progress events the last facade call reported to its callback
  inflight          \* the downloads that run concurrently, each with its own locals

vars == <<phase, ctorArgs, ctorError, containerName, options, containerClient,
          containerExists, blobs, last, calls, events, inflight>>

(***************************************************************************)
(* Bounds of the model.                                                    *)
(***************************************************************************)
MaxPathLen == 6       \* tokens in the path of a URL descriptor
MaxResults == 2       \* largest maxResults passed to list
MaxPayload == 3       \* bytes of a payload transferred with a progress callback
MaxChunks == 3        \* chunks, or progress reports, of one transfer
MaxInFlight == 2      \* downloads that run concurrently on one client
MaxStreamed == 2      \* bytes, and chunks, of the body of a concurrent download

(***************************************************************************)
(* Constructor arguments.                                                  *)
(***************************************************************************)
\* The third and fourth argument: undefined, an options object, a
\* TokenCredential (has getToken) or a StorageSharedKeyCredential (has accountName).
ArgValue(kind, create, pathStyle) ==
  [kind |-> kind, createContainerIfNotExists |-> create, allowPathStyleEndpoints |-> pathStyle]

UndefinedArg == ArgValue("undefined", FALSE, FALSE)
TokenCredential == ArgValue("token", FALSE, FALSE)
SharedKeyCredential == ArgValue("sharedKey", FALSE, FALSE)
DefaultAzureCredential == ArgValue("default", FALSE, FALSE)
OptionsArgs == {ArgValue("options", c, p) : c \in BOOLEAN, p \in BOOLEAN}

\* JavaScript truthiness of an argument: every object is truthy, undefined is not.
Truthy(x) == x.kind # "undefined"

\* 'prop' in x
HasProperty(prop, x) ==
  \/ prop = "getToken" /\ x.kind \in {"token", "default"}
  \/ prop = "accountName" /\ x.kind = "sharedKey"

\* x as SimpleBlobClientOptions: the two option fields, absent ones falsy.
AsOptions(x) ==
  [createContainerIfNotExists |-> x.createContainerIfNotExists,
   allowPathStyleEndpoints |-> x.allowPathStyleEndpoints]

EmptyOptions == [createContainerIfNotExists |-> FALSE, allowPathStyleEndpoints |-> FALSE]

\* Credential and options from the third and fourth argument.
ResolveArgs(third, fourth) ==
  IF Truthy(third)
    THEN IF HasProperty("getToken", third) \/ HasProperty("accountName", third)
           THEN [credential |-> third,
                 options |-> IF Truthy(fourth) THEN AsOptions(fourth) ELSE EmptyOptions]
           ELSE [credential |-> UndefinedArg, options |-> AsOptions(third)]
    ELSE [credential |-> UndefinedArg, options |-> EmptyOptions]

(***************************************************************************)
(* Strings as token sequences.                                             *)
(***************************************************************************)
Includes(s, tok) == \E i \in 1..Len(s) : s[i] = tok
StartsWith(s, tok) == Len(s) > 0 /\ s[1] = tok

\* Index of the first token of s that is in toks, Len(s) + 1 when there is none.
FirstIndex(s, toks) ==
  IF \E i \in 1..Len(s) : s[i] \in toks
    THEN CHOOSE i \in 1..Len(s) : s[i] \in toks /\ \A j \in 1..(i - 1) : s[j] \notin toks
    ELSE Len(s) + 1

\* s.split(sep)
RECURSIVE Split(_, _)
Split(s, sep) ==
  LET i == FirstIndex(s, {sep}) IN
  IF i > Len(s) THEN <<s>>
  ELSE <<SubSeq(s, 1, i - 1)>> \o Split(SubSeq(s, i + 1, Len(s)), sep)

NonEmpty(p) == Len(p) > 0

\* new URL(d) for a descriptor that starts with a scheme: the authority runs to
\* the first "/" or to the query, the hostname is the authority without its
\* port, an empty path is "/".  A URL without a host does not parse.
ParseUrl(d) ==
  LET rest      == Tail(d)
      q         == FirstIndex(rest, {"?sig"})
      beforeQ   == SubSeq(rest, 1, q - 1)
      p         == FirstIndex(beforeQ, {"/"})
      authority == SubSeq(beforeQ, 1, p - 1)
      path      == SubSeq(beforeQ, p, Len(beforeQ))
  IN [valid    |-> authority # <<>>,
      hostname |-> IF authority # <<>> THEN authority[1] ELSE "",
      pathname |-> IF path = <<>> THEN <<"/">> ELSE path,
      search   |-> SubSeq(rest, q, Len(rest))]

LOCALHOST_HOSTNAMES == {"localhost", "127.0.0.1", "::1", "0.0.0.0", "host.docker.internal"}

isLocalhostHost(hostname) == hostname \in LOCALHOST_HOSTNAMES

\* parsedUrl.pathname.split('/').filter(p => p.length > 0)
PathParts(parsedUrl) == SelectSeq(Split(parsedUrl.pathname, "/"), NonEmpty)

AllowPathStyle(parsedUrl, opts) ==
  opts.allowPathStyleEndpoints \/ isLocalhostHost(parsedUrl.hostname)

MaxPathSegments(allowPathStyle) == IF allowPathStyle THEN 2 ELSE 1
ContainerSegmentIndex(allowPathStyle) == IF allowPathStyle THEN 1 ELSE 0

\* A variant that applies the path-style maximum to every host.
IsBlobLevelUrlAnyHost(pathParts, allowPathStyle) == Len(pathParts) > 2

\* pathParts.length > maxPathSegments
IsBlobLevelUrl(pathParts, allowPathStyle) == Len(pathParts) > MaxPathSegments(allowPathStyle)

\* A variant that always reads the first segment.
UrlContainerNameFirst(pathParts, allowPathStyle) == pathParts[1]

\* pathParts[containerSegmentIndex], an index from 0
UrlContainerName(pathParts, allowPathStyle) == pathParts[ContainerSegmentIndex(allowPathStyle) + 1]

IsConnectionString(d) == Includes(d, "AccountName=") \/ Includes(d, "UseDevelopmentStorage=true")
IsUrl(d) == StartsWith(d, "http://") \/ StartsWith(d, "https://")

\* A container handle: how it was built, from what text, with what credential,
\* and the container it addresses.
Handle(built, url, credential, container) ==
  [built |-> built, url |-> url, credential |-> credential, container |-> container]

NoHandle == Handle("none", <<>>, UndefinedArg, <<>>)

Constructed(name, opts, handle) ==
  [error |-> "none", containerName |-> name, options |-> opts, containerClient |-> handle]

Thrown(error, name, opts) ==
  [error |-> error, containerName |-> name, options |-> opts, containerClient |-> NoHandle]

\* The URL branch of the constructor.
FromUrl(d, name, credential, opts) ==
  LET parsedUrl == ParseUrl(d) IN
  IF ~parsedUrl.valid THEN Thrown("TypeError", name, opts)
  ELSE
    LET pathParts      == PathParts(parsedUrl)
        allowPathStyle == AllowPathStyle(parsedUrl, opts)
    IN IF IsBlobLevelUrl(pathParts, allowPathStyle)
         THEN Thrown("ConfigurationError", name, opts)
       ELSE IF Len(pathParts) = MaxPathSegments(allowPathStyle)
         THEN IF UrlContainerName(pathParts, allowPathStyle) # name
                THEN Thrown("ConfigurationError", name, opts)
                ELSE Constructed(name, opts, Handle("ContainerClient", d, credential, name))
       ELSE Constructed(name, opts, Handle("BlobServiceClient", d, credential, name))

\* `https://${accountName}.blob.core.windows.net`
AccountUrl(accountName) == <<"https://">> \o accountName \o <<".blob.core.windows.net">>

\* A variant that tests for a URL before it tests for a connection string.
NewSimpleBlobClientUrlFirst(d, name, third, fourth) ==
  LET r == ResolveArgs(third, fourth) IN
  IF IsUrl(d)
    THEN FromUrl(d, name, r.credential, r.options)
  ELSE IF IsConnectionString(d)
    THEN Constructed(name, r.options, Handle("fromConnectionString", d, UndefinedArg, name))
  ELSE Constructed(name, r.options,
         Handle("BlobServiceClient", AccountUrl(d),
                IF Truthy(r.credential) THEN r.credential ELSE DefaultAzureCredential, name))

\* new SimpleBlobClient(d, name, third, fourth)
NewSimpleBlobClient(d, name, third, fourth) ==
  LET r == ResolveArgs(third, fourth) IN
  IF IsConnectionString(d)
    THEN Constructed(name, r.options, Handle("fromConnectionString", d, UndefinedArg, name))
  ELSE IF IsUrl(d)
    THEN FromUrl(d, name, r.credential, r.options)
  ELSE Constructed(name, r.options,
         Handle("BlobServiceClient", AccountUrl(d),
                IF Truthy(r.credential) THEN r.credential ELSE DefaultAzureCredential, name))

(***************************************************************************)
(* The inputs of the constructor.                                          *)
(***************************************************************************)
NameChars == {"a", "b"}
ContainerNames == {<<"a">>, <<"b">>}

PathAlphabet == {"/"} \cup NameChars
Paths == {<<>>} \cup
         {p \in UNION {[1..n -> PathAlphabet] : n \in 1..MaxPathLen} : p[1] = "/"}

\* Scheme and authority: an account endpoint and two local emulator endpoints.
Origins == {<<"https://", "acct.blob.core.windows.net">>,
            <<"http://", "127.0.0.1", ":10000">>,
            <<"http://", "[::1]", ":10000">>}
Queries == {<<>>, <<"?sig">>}

ConnectionString == <<"DefaultEndpointsProtocol=https;", "AccountName=", "acct", ";AccountKey=k">>

UrlDescriptors ==
  {o \o p \o q : o \in Origins, p \in Paths, q \in Queries}

Descriptors ==
  UrlDescriptors
  \cup {<<"https://">>, <<"http://", "?sig">>}                 \* no host: not a URL
  \cup {ConnectionString, <<"UseDevelopmentStorage=true">>}
  \cup {<<"https://", "acct.blob.core.windows.net", "/", "a", "/", "b", "?sig", "AccountName=">>}
  \cup {<<"acct">>}

ThirdArgs == {UndefinedArg, TokenCredential, SharedKeyCredential} \cup OptionsArgs
FourthArgs == {UndefinedArg, ArgValue("options", TRUE, FALSE), ArgValue("options", FALSE, TRUE)}

CtorArgs(d, name, third, fourth) ==
  [descriptor |-> d, containerName |-> name, third |-> third, fourth |-> fourth]

(***************************************************************************)
(* Errors (errors.ts).                                                     *)
(***************************************************************************)
\* A failure raised by the backend, its SDK or the runtime: the class of the
\* thrown object, its statusCode (0: it has none) and its code ("": none).
RawError(name, statusCode, code) == [name |-> name, statusCode |-> statusCode, code |-> code]
NoCause == RawError("none", 0, "")

\* The value of a field an error class does not declare.
Absent == <<"(absent)">>

\* An error as the caller receives it: its class, its code, the fields of the
\* class and the failure it wraps.
Err(kind, code, blobName, cName, operation, cause) ==
  [kind |-> kind, code |-> code, blobName |-> blobName, containerName |-> cName,
   operation |-> operation, originalError |-> cause]

NoError == Err("none", "", Absent, Absent, "", NoCause)

BlobStorageError(code, cause) == Err("BlobStorageError", code, Absent, Absent, "", cause)
\* A variant that passes the two names in the other order.
BlobNotFoundErrorSwapped(blobName, cName, cause) ==
  Err("BlobNotFoundError", "BLOB_NOT_FOUND", cName, blobName, "", cause)

BlobNotFoundError(blobName, cName, cause) ==
  Err("BlobNotFoundError", "BLOB_NOT_FOUND", blobName, cName, "", cause)
ContainerNotFoundError(cName, cause) ==
  Err("ContainerNotFoundError", "CONTAINER_NOT_FOUND", Absent, cName, "", cause)
AuthenticationError(cause) ==
  Err("AuthenticationError", "AUTHENTICATION_ERROR", Absent, Absent, "", cause)
BlobUploadError(blobName, cName, cause) ==
  Err("BlobUploadError", "BLOB_UPLOAD_ERROR", blobName, cName, "", cause)
BlobDownloadError(blobName, cName, cause) ==
  Err("BlobDownloadError", "BLOB_DOWNLOAD_ERROR", blobName, cName, "", cause)
ContainerOperationError(cName, operation, cause) ==
  Err("ContainerOperationError", "CONTAINER_OPERATION_ERROR", Absent, cName, operation, cause)
ConfigurationError == Err("ConfigurationError", "CONFIGURATION_ERROR", Absent, Absent, "", NoCause)

\* A failure no handler caught: the caller receives the thrown object itself.
Uncaught(raw) == Err(raw.name, raw.code, Absent, Absent, "", raw)

\* BlobStorageError and its subclasses.
TypedKinds ==
  {"BlobStorageError", "BlobNotFoundError", "ContainerNotFoundError", "AuthenticationError",
   "BlobUploadError", "BlobDownloadError", "ContainerOperationError", "ConfigurationError"}

\* A variant that takes a 404 for a missing blob only when the backend's code
\* says so.
parseAzureErrorByCode(err, blobName, cName, operation) ==
  IF err.statusCode = 404 /\ err.code = "BlobNotFound" THEN BlobNotFoundError(blobName, cName, err)
  ELSE IF err.statusCode = 404 /\ err.code = "ContainerNotFound"
    THEN ContainerNotFoundError(cName, err)
  ELSE IF err.statusCode = 401 \/ err.statusCode = 403 THEN AuthenticationError(err)
  ELSE IF operation = "upload" THEN BlobUploadError(blobName, cName, err)
  ELSE IF operation = "download" THEN BlobDownloadError(blobName, cName, err)
  ELSE BlobStorageError("UNKNOWN_ERROR", err)

parseAzureError(err, blobName, cName, operation) ==
  IF err.statusCode = 404
    THEN IF err.code = "BlobNotFound" THEN BlobNotFoundError(blobName, cName, err)
         ELSE IF err.code = "ContainerNotFound" THEN ContainerNotFoundError(cName, err)
         ELSE BlobNotFoundError(blobName, cName, err)
  ELSE IF err.statusCode = 401 \/ err.statusCode = 403 THEN AuthenticationError(err)
  ELSE IF operation = "upload" THEN BlobUploadError(blobName, cName, err)
  ELSE IF operation = "download" THEN BlobDownloadError(blobName, cName, err)
  ELSE BlobStorageError("UNKNOWN_ERROR", err)

\* A variant that translates the failures of the container as those of a blob.
parseContainerErrorAsBlob(err, cName, operation) == parseAzureError(err, <<>>, cName, "other")

parseContainerError(err, cName, operation) ==
  IF err.statusCode = 404 THEN ContainerNotFoundError(cName, err)
  ELSE IF err.statusCode = 401 \/ err.statusCode = 403 THEN AuthenticationError(err)
  ELSE ContainerOperationError(cName, operation, err)

(***************************************************************************)
(* Text and bytes.                                                         *)
(***************************************************************************)
\* Characters are tokens: "E" stands for U+00E9, two bytes in UTF-8, "LF" for
\* a line feed, "NUL" for U+0000 and "FFFD" for the replacement character.
\* A variant that writes one byte per character, as 'latin1' would.
Utf8CharLatin1(c) ==
  CASE c = "a" -> <<97>> [] c = "E" -> <<233>> [] c = "1" -> <<49>> [] c = "[" -> <<91>>
    [] c = "]" -> <<93>> [] c = "," -> <<44>> [] c = " " -> <<32>> [] c = "LF" -> <<10>>
    [] c = "n" -> <<110>> [] c = "u" -> <<117>> [] c = "l" -> <<108>>
    [] OTHER -> <<63>>

Utf8Char(c) ==
  CASE c = "a"   -> <<97>>
    [] c = "E"   -> <<195, 169>>
    [] c = "1"   -> <<49>>
    [] c = "["   -> <<91>>
    [] c = "]"   -> <<93>>
    [] c = ","   -> <<44>>
    [] c = " "   -> <<32>>
    [] c = "LF"  -> <<10>>
    [] c = "NUL" -> <<0>>
    [] c = "n"   -> <<110>>
    [] c = "u"   -> <<117>>
    [] c = "l"   -> <<108>>
    [] OTHER     -> <<239, 191, 189>>

\* Buffer.from(text, 'utf-8')
RECURSIVE BufferFrom(_)
BufferFrom(text) ==
  IF text = <<>> THEN <<>> ELSE Utf8Char(Head(text)) \o BufferFrom(Tail(text))

AsciiChar(b) ==
  CASE b = 97 -> "a" [] b = 49 -> "1" [] b = 91 -> "[" [] b = 93 -> "]"
    [] b = 44 -> "," [] b = 32 -> " " [] b = 10 -> "LF" [] b = 0 -> "NUL"
    [] b = 110 -> "n" [] b = 117 -> "u" [] b = 108 -> "l"
    [] OTHER -> "FFFD"

\* buffer.toString('utf-8'): a byte that starts no complete character decodes
\* to the replacement character.
RECURSIVE BufferToString(_)
BufferToString(b) ==
  IF b = <<>> THEN <<>>
  ELSE IF Len(b) >= 2 /\ b[1] = 195 /\ b[2] = 169 THEN <<"E">> \o BufferToString(Tail(Tail(b)))
  ELSE <<AsciiChar(b[1])>> \o BufferToString(Tail(b))

(***************************************************************************)
(* JSON.                                                                   *)
(***************************************************************************)
\* A JavaScript value handed to uploadJson: the number 1, NaN, null, an array
\* of values, an object that contains itself, or undefined.
JsValue(t, items) == [t |-> t, items |-> items]
One == JsValue("number", <<>>)
NaN == JsValue("nan", <<>>)
Null == JsValue("null", <<>>)
Array(items) == JsValue("array", items)
Circular == JsValue("circular", <<>>)
UndefinedValue == JsValue("undefined", <<>>)

RECURSIVE Spaces(_)
Spaces(n) == IF n = 0 THEN <<>> ELSE <<" ">> \o Spaces(n - 1)

\* The text of a serializable value at a nesting depth, indented by 2.
RECURSIVE JsonText(_, _)
RECURSIVE JsonItems(_, _)
JsonText(v, depth) ==
  IF v.t = "number" THEN <<"1">>
  ELSE IF v.t \in {"nan", "null", "undefined"} THEN <<"n", "u", "l", "l">>
  ELSE IF v.items = <<>> THEN <<"[", "]">>
  ELSE <<"[", "LF">> \o JsonItems(v.items, depth + 1) \o <<"LF">> \o Spaces(2 * depth) \o <<"]">>
JsonItems(items, depth) ==
  Spaces(2 * depth) \o JsonText(Head(items), depth)
    \o (IF Len(items) = 1 THEN <<>> ELSE <<",", "LF">> \o JsonItems(Tail(items), depth))

\* The value contains itself somewhere.
RECURSIVE HasCycle(_)
HasCycle(v) == v.t = "circular" \/ \E i \in 1..Len(v.items) : HasCycle(v.items[i])

\* JSON.stringify(v, null, 2): it throws on a cycle and returns undefined for
\* undefined; NaN, and undefined inside an array, are written as null.
JSONStringify(v) ==
  [threw   |-> HasCycle(v),
   defined |-> ~HasCycle(v) /\ v.t # "undefined",
   text    |-> IF ~HasCycle(v) /\ v.t # "undefined" THEN JsonText(v, 0) ELSE <<>>]

RECURSIVE SkipWhitespace(_)
SkipWhitespace(s) ==
  IF s # <<>> /\ Head(s) \in {" ", "LF"} THEN SkipWhitespace(Tail(s)) ELSE s

Parsed(ok, value, rest) == [ok |-> ok, value |-> value, rest |-> rest]
NotParsed == Parsed(FALSE, UndefinedValue, <<>>)

\* One JSON value at the head of s, and what follows it.
RECURSIVE ParseValue(_)
RECURSIVE ParseItems(_, _)
ParseValue(s0) ==
  LET s == SkipWhitespace(s0) IN
  IF s = <<>> THEN NotParsed
  ELSE IF Head(s) = "1"
    THEN IF Len(s) >= 2 /\ s[2] = "1" THEN NotParsed    \* a longer number: not a value of the model
         ELSE Parsed(TRUE, One, Tail(s))
  ELSE IF Head(s) = "n"
    THEN IF Len(s) >= 4 /\ SubSeq(s, 1, 4) = <<"n", "u", "l", "l">>
           THEN Parsed(TRUE, Null, SubSeq(s, 5, Len(s)))
           ELSE NotParsed
  ELSE IF Head(s) = "["
    THEN LET t == SkipWhitespace(Tail(s)) IN
         IF t # <<>> /\ Head(t) = "]" THEN Parsed(TRUE, Array(<<>>), Tail(t))
         ELSE ParseItems(t, <<>>)
  ELSE NotParsed
ParseItems(s, acc) ==
  LET v == ParseValue(s) IN
  IF ~v.ok THEN NotParsed
  ELSE LET t == SkipWhitespace(v.rest) IN
       IF t = <<>> THEN NotParsed
       ELSE IF Head(t) = "," THEN ParseItems(Tail(t), Append(acc, v.value))
       ELSE IF Head(t) = "]" THEN Parsed(TRUE, Array(Append(acc, v.value)), Tail(t))
       ELSE NotParsed

\* JSON.parse(text): ok is FALSE where it throws a SyntaxError.
JSONParse(text) ==
  LET v == ParseValue(text) IN
  IF v.ok /\ SkipWhitespace(v.rest) = <<>> THEN v ELSE NotParsed

(***************************************************************************)
(* Content types (stream-helpers.ts).                                      *)
(***************************************************************************)
\* The entries of the table the model's names reach; "" stands for undefined.
MimeType(ext) ==
  CASE ext = <<"txt">>  -> "text/plain"
    [] ext = <<"json">> -> "application/json"
    [] ext = <<"png">>  -> "image/png"
    [] OTHER -> ""

\* filename.toLowerCase().split('.').pop(), looked up in the table
getContentTypeFromExtension(filename) ==
  LET parts == Split(filename, ".")
      ext   == parts[Len(parts)]
  IN IF ext # <<>> THEN MimeType(ext) ELSE ""

\* a || b || c on strings: the first that is not empty
FirstTruthy(candidates) ==
  LET i == FirstIndex(candidates, {c \in {candidates[k] : k \in 1..Len(candidates)} : c # ""})
  IN IF i > Len(candidates) THEN "" ELSE candidates[i]

(***************************************************************************)
(* The backend.                                                            *)
(***************************************************************************)
NoBlob == <<-1>>
BlobNames == {<<"a", ".", "json">>, <<"png">>}
\* The backend lists blobs in the lexicographic order of their names.
SortedBlobNames == << <<"a", ".", "json">>, <<"png">> >>

NoFault == NoCause
Unauthorized == RawError("RestError", 401, "InvalidAuthenticationInfo")
Forbidden == RawError("RestError", 403, "AuthorizationFailure")
ServerError == RawError("RestError", 500, "InternalError")
NetworkError == RawError("Error", 0, "ECONNRESET")
NotFoundNoCode == RawError("RestError", 404, "")
BlobNotFound == RawError("RestError", 404, "BlobNotFound")
ContainerNotFound == RawError("RestError", 404, "ContainerNotFound")
BlobAlreadyExists == RawError("RestError", 409, "BlobAlreadyExists")
InvalidRange == RawError("RestError", 416, "InvalidRange")
RangeError == RawError("RangeError", 0, "")
TypeError == RawError("TypeError", 0, "ERR_INVALID_ARG_TYPE")
FileNotFound == RawError("Error", 0, "ENOENT")
StreamError == RawError("Error", 0, "ECONNRESET")
AccessDenied == RawError("Error", 0, "EACCES")

\* What the environment may make any request fail with, whatever is stored.
InjectedFaults == {Unauthorized, Forbidden, ServerError, NetworkError, NotFoundNoCode}
Faults == {NoFault} \cup InjectedFaults
\* blobClient.exists() answers false for a 404 itself: it never throws one.
ExistsFaults == Faults \ {NotFoundNoCode}

\* How the service answers a request on a blob when nothing else goes wrong.
BlobFault(exists, name) ==
  IF ~exists THEN ContainerNotFound
  ELSE IF blobs[name] = NoBlob THEN BlobNotFound
  ELSE NoFault

Injected(f, natural) == IF f # NoFault THEN f ELSE natural

\* A request as the facade issued it, and the failure it ended with (NoFault: none).
Call(fn, blobName, detail, fault) ==
  [fn |-> fn, blobName |-> blobName, detail |-> detail, fault |-> fault]
NoDetail == [none |-> TRUE]

(***************************************************************************)
(* Numbers.  A JavaScript number is modelled by twice its value, so that   *)
(* 1.5 is 3: Num(n) is the integer n.                                      *)
(***************************************************************************)
Num(n) == 2 * n
IsInteger(x) == x % 2 = 0
ToInt(x) == x \div 2

\* options.range: undefined, or { start, end }
NoRange == [defined |-> FALSE, start |-> 0, end |-> 0]
Range(start, end) == [defined |-> TRUE, start |-> start, end |-> end]

\* A variant that takes the end of the range for exclusive.
DownloadArgsExclusive(range) ==
  [ranged |-> range.defined,
   offset |-> range.start,
   count  |-> IF range.defined THEN range.end - range.start ELSE 0]

\* The arguments of blobClient.download: options?.range?.start and
\* options?.range ? end - start + 1 : undefined
DownloadArgs(range) ==
  [ranged |-> range.defined,
   offset |-> range.start,
   count  |-> IF range.defined THEN range.end - range.start + Num(1) ELSE 0]

\* A download response: a failure, or a body (or none) of a length, whose
\* stream may break while it is read.
Response(fault, hasBody, body, streamFails) ==
  [fault |-> fault, hasBody |-> hasBody, body |-> body, contentLength |-> Len(body),
   streamFails |-> streamFails]
Failed(fault) == Response(fault, FALSE, <<>>, FALSE)
Served(body) ==
  {Response(NoFault, TRUE, body, FALSE), Response(NoFault, FALSE, <<>>, FALSE),
   Response(NoFault, TRUE, body, TRUE)}

\* What the backend may answer to download(offset, count) on a blob.  The
\* bytes offset .. offset + count - 1 of the blob for a range inside it, 416
\* for one that starts beyond it; an offset below 0 or a count that is no
\* positive integer is rejected, by the SDK with a RangeError or by the service.
Responses(name, args) ==
  LET natural == BlobFault(containerExists, name)
      data    == blobs[name]
      valid   == /\ IsInteger(args.offset) /\ args.offset >= 0
                 /\ IsInteger(args.count) /\ args.count >= Num(1)
      from    == ToInt(args.offset) + 1
      to      == IF ToInt(args.offset) + ToInt(args.count) < Len(data)
                   THEN ToInt(args.offset) + ToInt(args.count) ELSE Len(data)
  IN {Failed(f) : f \in InjectedFaults}
     \cup IF ~args.ranged
            THEN (IF natural # NoFault THEN {Failed(natural)} ELSE Served(data))
          ELSE IF ~valid THEN {Failed(RangeError), Failed(InvalidRange)}
          ELSE IF natural # NoFault THEN {Failed(natural)}
          ELSE IF from > Len(data) THEN {Failed(InvalidRange)}
          ELSE Served(SubSeq(data, from, to))

(***************************************************************************)
(* The facade's calls and how they settle.                                 *)
(***************************************************************************)
Settled(op, blobName, arg, error, value) ==
  [op |-> op, blobName |-> blobName, arg |-> arg,
   status |-> IF error.kind = "none" THEN "resolved" ELSE "rejected",
   error |-> error, value |-> value]

\* A number or undefined.
NoNumber == [defined |-> FALSE, n |-> 0]
Number(n) == [defined |-> TRUE, n |-> n]

\* A download in flight: the chunks its body delivers (source) and how many
\* were read, and the locals of the call: totalBytes, loadedBytes, chunks,
\* the events it reported and its result.
InFlight == 1..MaxInFlight
IdleCall ==
  [state |-> "idle", op |-> "none", source |-> <<>>, next |-> 1, totalBytes |-> NoNumber,
   loadedBytes |-> 0, chunks |-> <<>>, events |-> <<>>, result |-> <<>>]

NoCall == [op |-> "none", blobName |-> <<>>, arg |-> NoDetail, status |-> "none",
           error |-> NoError, value |-> NoDetail]

Init ==
  /\ phase = "new"
  /\ ctorArgs = CtorArgs(<<>>, <<>>, UndefinedArg, UndefinedArg)
  /\ ctorError = "none"
  /\ containerName = <<>>
  /\ options = EmptyOptions
  /\ containerClient = NoHandle
  /\ containerExists \in BOOLEAN
  /\ blobs = [n \in BlobNames |-> NoBlob]
  /\ last = NoCall
  /\ calls = <<>>
  /\ events = <<>>
  /\ inflight = [c \in InFlight |-> IdleCall]

\* The constructor: it builds the handle and issues no request.
Construct(d, name, third, fourth) ==
  /\ phase = "new"
  /\ LET c == NewSimpleBlobClient(d, name, third, fourth) IN
     /\ phase' = IF c.error = "none" THEN "ready" ELSE "failed"
     /\ ctorError' = c.error
     /\ containerName' = c.containerName
     /\ options' = c.options
     /\ containerClient' = c.containerClient
  /\ ctorArgs' = CtorArgs(d, name, third, fourth)
  /\ UNCHANGED <<containerExists, blobs, last, calls, events, inflight>>

ConstructAny ==
  /\ phase = "new"
  /\ \E d \in Descriptors, name \in ContainerNames, third \in ThirdArgs, fourth \in FourthArgs :
       Construct(d, name, third, fourth)

NextCtor == ConstructAny

SpecCtor == Init /\ [][NextCtor]_vars

\* The caller awaits each call before it issues the next one.
Idle == phase = "ready" /\ last.op = "none"

\* A variant in which a call resolves the endpoint again, with the default
\* credential.
FinishWithResolved(result, issued, reported, newBlobs, newExists) ==
  /\ last' = result
  /\ calls' = issued
  /\ events' = reported
  /\ blobs' = newBlobs
  /\ containerExists' = newExists
  /\ containerClient' = [containerClient EXCEPT !.credential = DefaultAzureCredential]
  /\ UNCHANGED <<phase, ctorArgs, ctorError, containerName, options, inflight>>

\* What a facade call leaves, with the progress events it reported: the
\* client's fields never change.
FinishWith(result, issued, reported, newBlobs, newExists) ==
  /\ last' = result
  /\ calls' = issued
  /\ events' = reported
  /\ blobs' = newBlobs
  /\ containerExists' = newExists
  /\ UNCHANGED <<phase, ctorArgs, ctorError, containerName, options, containerClient, inflight>>

\* A call made without a progress callback.
Finish(result, issued, newBlobs, newExists) ==
  FinishWith(result, issued, <<>>, newBlobs, newExists)

(***************************************************************************)
(* Downloads.                                                              *)
(***************************************************************************)
\* A variant whose catch translates every error, the BlobDownloadError of the
\* missing body included.
DrainedTranslated(blobName, resp) ==
  IF resp.fault # NoFault
    THEN [error |-> parseAzureError(resp.fault, blobName, containerName, "download"), body |-> <<>>]
  ELSE IF ~resp.hasBody
    THEN [error |-> parseAzureError(RawError("BlobDownloadError", 0, "BLOB_DOWNLOAD_ERROR"),
                                    blobName, containerName, "download"),
          body |-> <<>>]
  ELSE IF resp.streamFails
    THEN [error |-> parseAzureError(StreamError, blobName, containerName, "download"), body |-> <<>>]
  ELSE [error |-> NoError, body |-> resp.body]

\* The try block shared by downloadAsString and downloadAsBuffer: the error it
\* ends with (NoError: none) and the bytes drained from the body.
Drained(blobName, resp) ==
  IF resp.fault # NoFault
    THEN [error |-> parseAzureError(resp.fault, blobName, containerName, "download"), body |-> <<>>]
  ELSE IF ~resp.hasBody
    THEN [error |-> BlobDownloadError(blobName, containerName, NoCause), body |-> <<>>]
  ELSE IF resp.streamFails
    THEN [error |-> parseAzureError(StreamError, blobName, containerName, "download"), body |-> <<>>]
  ELSE [error |-> NoError, body |-> resp.body]

DownloadCall(blobName, range, resp) ==
  Call("download", blobName, DownloadArgs(range), resp.fault)

DownloadAsBuffer(blobName, range, resp) ==
  /\ Idle
  /\ LET d == Drained(blobName, resp) IN
     Finish(Settled("downloadAsBuffer", blobName, range, d.error, d.body),
            <<DownloadCall(blobName, range, resp)>>, blobs, containerExists)

DownloadAsString(blobName, range, resp) ==
  /\ Idle
  /\ LET d == Drained(blobName, resp) IN
     Finish(Settled("downloadAsString", blobName, range, d.error, BufferToString(d.body)),
            <<DownloadCall(blobName, range, resp)>>, blobs, containerExists)

\* A variant that parses outside any try block.
DownloadAsJsonUncaught(blobName, range, resp) ==
  /\ Idle
  /\ LET d      == Drained(blobName, resp)
         parsed == JSONParse(BufferToString(d.body))
         error  == IF d.error # NoError THEN d.error
                   ELSE IF ~parsed.ok THEN Uncaught(RawError("SyntaxError", 0, ""))
                   ELSE NoError
     IN Finish(Settled("downloadAsJson", blobName, range, error, parsed.value),
               <<DownloadCall(blobName, range, resp)>>, blobs, containerExists)

\* downloadAsJson: downloadAsString, then JSON.parse in a try of its own.
DownloadAsJson(blobName, range, resp) ==
  /\ Idle
  /\ LET d      == Drained(blobName, resp)
         parsed == JSONParse(BufferToString(d.body))
         error  == IF d.error # NoError THEN d.error
                   ELSE IF ~parsed.ok
                     THEN BlobDownloadError(blobName, containerName, RawError("SyntaxError", 0, ""))
                   ELSE NoError
     IN Finish(Settled("downloadAsJson", blobName, range, error, parsed.value),
               <<DownloadCall(blobName, range, resp)>>, blobs, containerExists)

\* A variant that opens the destination file before it requests the blob.
DownloadToFileOpenFirst(blobName, filePath, range, mkdirFails, resp) ==
  /\ Idle
  /\ LET mkdir == Call("mkdir", filePath, NoDetail, IF mkdirFails THEN AccessDenied ELSE NoFault)
         open  == Call("createWriteStream", filePath, NoDetail, NoFault)
         d     == Drained(blobName, resp)
     IN IF mkdirFails
          THEN Finish(Settled("downloadToFile", blobName, range,
                              parseAzureError(AccessDenied, blobName, containerName, "download"),
                              <<>>),
                      <<mkdir>>, blobs, containerExists)
          ELSE Finish(Settled("downloadToFile", blobName, range, d.error, d.body),
                      <<mkdir, open, DownloadCall(blobName, range, resp)>>,
                      blobs, containerExists)

\* downloadToFile: mkdir of the parent directory, the download, then the file
\* is opened and the body piped to it.
DownloadToFile(blobName, filePath, range, mkdirFails, resp) ==
  /\ Idle
  /\ LET mkdir == Call("mkdir", filePath, NoDetail, IF mkdirFails THEN AccessDenied ELSE NoFault)
         open  == Call("createWriteStream", filePath, NoDetail, NoFault)
         d     == Drained(blobName, resp)
     IN IF mkdirFails
          THEN Finish(Settled("downloadToFile", blobName, range,
                              parseAzureError(AccessDenied, blobName, containerName, "download"),
                              <<>>),
                      <<mkdir>>, blobs, containerExists)
          ELSE Finish(Settled("downloadToFile", blobName, range, d.error, d.body),
                      <<mkdir, DownloadCall(blobName, range, resp)>>
                        \o (IF resp.fault = NoFault /\ resp.hasBody THEN <<open>> ELSE <<>>),
                      blobs, containerExists)

(***************************************************************************)
(* Uploads.                                                                *)
(***************************************************************************)
\* UploadOptions: contentType ("": not given) and overwrite.
UploadOptions(contentType, overwrite) == [contentType |-> contentType, overwrite |-> overwrite]

\* A variant whose failure is translated as the upload's own failures are, as
\* if ensureContainer were called inside the try block of the upload.
EnsureContainerInTry(f) ==
  IF options.createContainerIfNotExists
    THEN [issued |-> <<Call("createIfNotExists", <<>>, NoDetail, f)>>,
          error  |-> IF f # NoFault
                       THEN parseAzureError(f, <<>>, containerName, "upload")
                       ELSE NoError,
          exists |-> IF f # NoFault THEN containerExists ELSE TRUE]
    ELSE [issued |-> <<>>, error |-> NoError, exists |-> containerExists]

\* ensureContainer(): the request it issues, the error it throws (NoError:
\* none) and whether the container exists afterwards.
EnsureContainer(f) ==
  IF options.createContainerIfNotExists
    THEN [issued |-> <<Call("createIfNotExists", <<>>, NoDetail, f)>>,
          error  |-> IF f # NoFault
                       THEN parseContainerError(f, containerName, "create container")
                       ELSE NoError,
          exists |-> IF f # NoFault THEN containerExists ELSE TRUE]
    ELSE [issued |-> <<>>, error |-> NoError, exists |-> containerExists]

\* A variant that never sets a condition on the write.
IfNoneMatchNever(uopts) == FALSE

\* conditions: options?.overwrite === false ? { ifNoneMatch: '*' } : undefined
IfNoneMatch(uopts) == uopts.overwrite = "false"

\* What the service answers to a write of a blob.
WriteFault(exists, blobName, ifNoneMatch) ==
  IF ~exists THEN ContainerNotFound
  ELSE IF ifNoneMatch /\ blobs[blobName] # NoBlob THEN BlobAlreadyExists
  ELSE NoFault

\* An upload after its arguments are prepared: ensureContainer first, outside
\* the try block; then, inside it, the preparation of the payload (prepared:
\* the failure it throws, NoFault when it throws none) and the write fn.
Upload(op, arg, fn, blobName, prepared, data, contentType, uopts, f1, f2) ==
  LET ensured == EnsureContainer(f1)
      fault   == Injected(f2, WriteFault(ensured.exists, blobName, IfNoneMatch(uopts)))
      write   == Call(fn, blobName,
                      [data |-> data, blobContentType |-> contentType,
                       ifNoneMatch |-> IfNoneMatch(uopts)], fault)
  IN IF ensured.error # NoError
       THEN Finish(Settled(op, blobName, arg, ensured.error, <<>>),
                   ensured.issued, blobs, ensured.exists)
     ELSE IF prepared # NoFault
       THEN Finish(Settled(op, blobName, arg,
                           parseAzureError(prepared, blobName, containerName, "upload"), <<>>),
                   ensured.issued, blobs, ensured.exists)
     ELSE IF fault # NoFault
       THEN Finish(Settled(op, blobName, arg,
                           parseAzureError(fault, blobName, containerName, "upload"), <<>>),
                   ensured.issued \o <<write>>, blobs, ensured.exists)
     ELSE Finish(Settled(op, blobName, arg, NoError, <<>>),
                 ensured.issued \o <<write>>, [blobs EXCEPT ![blobName] = data], ensured.exists)

\* uploadFromString with a content that is a string (defined) or undefined:
\* Buffer.from(undefined, 'utf-8') throws a TypeError inside the try block.
UploadString(op, arg, blobName, defined, content, uopts, f1, f2) ==
  Upload(op, arg, "uploadData", blobName,
         IF defined THEN NoFault ELSE TypeError,
         BufferFrom(content),
         FirstTruthy(<<uopts.contentType, getContentTypeFromExtension(blobName), "text/plain">>),
         uopts, f1, f2)

UploadFromString(blobName, content, uopts, f1, f2) ==
  /\ Idle
  /\ UploadString("uploadFromString", content, blobName, TRUE, content, uopts, f1, f2)

UploadFromBuffer(blobName, buffer, uopts, f1, f2) ==
  /\ Idle
  /\ Upload("uploadFromBuffer", buffer, "uploadData", blobName, NoFault, buffer,
            FirstTruthy(<<uopts.contentType, getContentTypeFromExtension(blobName),
                          "application/octet-stream">>),
            uopts, f1, f2)

\* uploadFromFile: uploadFile reads the file; it fails when the file is missing.
UploadFromFile(blobName, filePath, file, uopts, f1, f2) ==
  /\ Idle
  /\ Upload("uploadFromFile", filePath, "uploadFile", blobName, NoFault, file.data,
            FirstTruthy(<<uopts.contentType, getContentTypeFromExtension(blobName),
                          getContentTypeFromExtension(filePath), "application/octet-stream">>),
            uopts, f1, IF file.present THEN f2 ELSE FileNotFound)

\* uploadJson: JSON.stringify outside any try block, then uploadFromString
\* with the content type forced to application/json.
UploadJson(blobName, data, uopts, f1, f2) ==
  /\ Idle
  /\ LET content == JSONStringify(data) IN
     IF content.threw
       THEN Finish(Settled("uploadJson", blobName, data, Uncaught(TypeError), <<>>),
                   <<>>, blobs, containerExists)
       ELSE UploadString("uploadJson", data, blobName, content.defined, content.text,
                         UploadOptions("application/json", uopts.overwrite), f1, f2)

(***************************************************************************)
(* exists, delete, list, metadata.                                         *)
(***************************************************************************)
\* A variant that reports an absent blob the way delete does.
ExistsOutcomeNotFound(blobName, f, present) ==
  IF f # NoFault
    THEN [error |-> parseAzureError(f, blobName, containerName, "other"), value |-> FALSE]
  ELSE IF ~present
    THEN [error |-> parseAzureError(BlobNotFound, blobName, containerName, "other"),
          value |-> FALSE]
  ELSE [error |-> NoError, value |-> TRUE]

\* exists: the answer of blobClient.exists() (present: whether the container
\* holds the blob), or the translation of what it threw.
ExistsOutcome(blobName, f, present) ==
  IF f # NoFault
    THEN [error |-> parseAzureError(f, blobName, containerName, "other"), value |-> FALSE]
    ELSE [error |-> NoError, value |-> present]

Exists(blobName, f) ==
  /\ Idle
  /\ LET r == ExistsOutcome(blobName, f, containerExists /\ blobs[blobName] # NoBlob) IN
     Finish(Settled("exists", blobName, NoDetail, r.error, r.value),
            <<Call("exists", blobName, NoDetail, f)>>, blobs, containerExists)

Delete(blobName, f) ==
  /\ Idle
  /\ LET fault == Injected(f, BlobFault(containerExists, blobName)) IN
     Finish(Settled("delete", blobName, NoDetail,
                    IF fault # NoFault
                      THEN parseAzureError(fault, blobName, containerName, "other")
                      ELSE NoError, <<>>),
            <<Call("delete", blobName, NoDetail, fault)>>,
            IF fault = NoFault THEN [blobs EXCEPT ![blobName] = NoBlob] ELSE blobs,
            containerExists)

\* The second argument of list: undefined, a number, or ListOptions.
ListArg(kind, maxResults, includeMetadata) ==
  [kind |-> kind, maxResults |-> maxResults, includeMetadata |-> includeMetadata]

\* The options list works with.
ListOptions(arg) ==
  IF arg.kind = "number"
    THEN [maxResults |-> arg.maxResults, includeMetadata |-> TRUE]
    ELSE [maxResults |-> arg.maxResults,
          includeMetadata |-> IF arg.includeMetadata = "false" THEN FALSE ELSE TRUE]

\* options.maxResults && count >= options.maxResults
LimitReached(maxResults, count) ==
  maxResults.defined /\ maxResults.n # 0 /\ count >= maxResults.n

\* The for await loop over the listing, from its k-th item on: the items
\* collected and how many items were taken from the iterator.
RECURSIVE ListLoop(_, _, _, _)
ListLoop(listing, k, maxResults, acc) ==
  IF k > Len(listing) THEN [items |-> acc, pulled |-> Len(listing)]
  ELSE IF LimitReached(maxResults, Len(acc)) THEN [items |-> acc, pulled |-> k]
  ELSE ListLoop(listing, k + 1, maxResults,
                Append(acc, [name |-> listing[k], size |-> Len(blobs[listing[k]])]))

NoPrefix == [defined |-> FALSE, text |-> <<>>]
Prefix(text) == [defined |-> TRUE, text |-> text]

IsPrefixOf(prefix, name) ==
  ~prefix.defined
  \/ (Len(prefix.text) <= Len(name) /\ SubSeq(name, 1, Len(prefix.text)) = prefix.text)

\* listBlobsFlat({ prefix }): the names stored under the prefix, in order.
Listing(prefix) ==
  LET Listed(name) == blobs[name] # NoBlob /\ IsPrefixOf(prefix, name)
  IN SelectSeq(SortedBlobNames, Listed)

List(prefix, arg, f) ==
  /\ Idle
  /\ LET opts  == ListOptions(arg)
         fault == Injected(f, IF containerExists THEN NoFault ELSE ContainerNotFound)
         loop  == ListLoop(Listing(prefix), 1, opts.maxResults, <<>>)
     IN Finish(Settled("list", <<>>, arg,
                       IF fault # NoFault
                         THEN parseContainerError(fault, containerName, "list blobs")
                         ELSE NoError,
                       IF fault # NoFault THEN <<>> ELSE loop.items),
               <<Call("listBlobsFlat", <<>>,
                      [prefix |-> prefix, includeMetadata |-> opts.includeMetadata,
                       pulled |-> IF fault # NoFault THEN 0 ELSE loop.pulled], fault)>>,
               blobs, containerExists)

\* getMetadata: getProperties, then getTags when includeTags is set.
GetMetadata(blobName, includeTags, f1, f2) ==
  /\ Idle
  /\ LET fault1     == Injected(f1, BlobFault(containerExists, blobName))
         properties == Call("getProperties", blobName, NoDetail, fault1)
         tags       == Call("getTags", blobName, NoDetail, f2)
     IN IF fault1 # NoFault
          THEN Finish(Settled("getMetadata", blobName, includeTags,
                              parseAzureError(fault1, blobName, containerName, "other"), <<>>),
                      <<properties>>, blobs, containerExists)
        ELSE IF includeTags /\ f2 # NoFault
          THEN Finish(Settled("getMetadata", blobName, includeTags,
                              parseAzureError(f2, blobName, containerName, "other"), <<>>),
                      <<properties, tags>>, blobs, containerExists)
        ELSE Finish(Settled("getMetadata", blobName, includeTags, NoError,
                            [contentLength |-> Len(blobs[blobName]), tags |-> includeTags]),
                    IF includeTags THEN <<properties, tags>> ELSE <<properties>>,
                    blobs, containerExists)

SetMetadata(blobName, f) ==
  /\ Idle
  /\ LET fault == Injected(f, BlobFault(containerExists, blobName)) IN
     Finish(Settled("setMetadata", blobName, NoDetail,
                    IF fault # NoFault
                      THEN parseAzureError(fault, blobName, containerName, "other")
                      ELSE NoError, <<>>),
            <<Call("setMetadata", blobName, NoDetail, fault)>>, blobs, containerExists)

\* getContainerClient(): return this.containerClient
GetContainerClient ==
  /\ Idle
  /\ Finish(Settled("getContainerClient", <<>>, NoDetail, NoError, containerClient),
            <<>>, blobs, containerExists)

(***************************************************************************)
(* The inputs of the facade's calls, and the specification.                *)
(***************************************************************************)
\* -1, 0, 1 and 1.5
RangeNumbers == {Num(-1), Num(0), Num(1), 3}
Ranges == {NoRange} \cup {Range(s, e) : s \in RangeNumbers, e \in RangeNumbers}

\* The faults of an upload's two requests: the second is only issued when the
\* first did not fail.
FaultPlans == {<<NoFault, f>> : f \in Faults} \cup {<<f, NoFault>> : f \in InjectedFaults}

StringInputs == {<<>>, <<"a", "E">>}
BufferInputs == {<<>>, <<97, 195, 169>>}
JsonInputs == {Array(<<One, Array(<<One>>)>>), Array(<<NaN>>), Circular, UndefinedValue}
FilePath == <<"f", ".", "png">>
FileStates == {[present |-> TRUE, data |-> <<97, 195, 169>>], [present |-> FALSE, data |-> <<>>]}
UploadOptionsInputs ==
  {UploadOptions("", "undefined"), UploadOptions("", "false"), UploadOptions("text/html", "true")}

ListArgs ==
  {ListArg("undefined", NoNumber, "undefined")}
  \cup {ListArg("number", Number(n), "undefined") : n \in 0..MaxResults}
  \cup {ListArg("options", m, i) :
          m \in {NoNumber} \cup {Number(n) : n \in 0..MaxResults}, i \in {"undefined", "false"}}
Prefixes == {NoPrefix, Prefix(<<"a">>)}

\* The constructions the facade's calls are explored from.
FacadeContainer == <<"a">>
FacadeArgs == {<<UndefinedArg, UndefinedArg>>,
               <<ArgValue("options", TRUE, FALSE), UndefinedArg>>,
               <<UndefinedArg, ArgValue("options", TRUE, FALSE)>>,
               <<TokenCredential, ArgValue("options", TRUE, FALSE)>>}

ConstructFacade ==
  /\ phase = "new"
  /\ \E args \in FacadeArgs : Construct(ConnectionString, FacadeContainer, args[1], args[2])

\* The caller takes the result of the call it awaited; the client keeps
\* nothing of it.
Await ==
  /\ phase = "ready"
  /\ last.op # "none"
  /\ last' = NoCall
  /\ calls' = <<>>
  /\ events' = <<>>
  /\ UNCHANGED <<phase, ctorArgs, ctorError, containerName, options, containerClient,
                 containerExists, blobs, inflight>>

Download ==
  \E blobName \in BlobNames, range \in Ranges :
    \E resp \in Responses(blobName, DownloadArgs(range)) :
      \/ DownloadAsString(blobName, range, resp)
      \/ DownloadAsBuffer(blobName, range, resp)
      \/ DownloadAsJson(blobName, range, resp)
      \/ \E mkdirFails \in BOOLEAN : DownloadToFile(blobName, FilePath, range, mkdirFails, resp)

UploadAny ==
  \E blobName \in BlobNames, uopts \in UploadOptionsInputs, f \in FaultPlans :
    \/ \E content \in StringInputs : UploadFromString(blobName, content, uopts, f[1], f[2])
    \/ \E buffer \in BufferInputs : UploadFromBuffer(blobName, buffer, uopts, f[1], f[2])
    \/ \E file \in FileStates : UploadFromFile(blobName, FilePath, file, uopts, f[1], f[2])
    \/ \E data \in JsonInputs : UploadJson(blobName, data, uopts, f[1], f[2])

Other ==
  \/ \E blobName \in BlobNames, f \in ExistsFaults : Exists(blobName, f)
  \/ \E blobName \in BlobNames, f \in Faults : Delete(blobName, f)
  \/ \E prefix \in Prefixes, arg \in ListArgs, f \in Faults : List(prefix, arg, f)
  \/ \E blobName \in BlobNames, includeTags \in BOOLEAN, f \in FaultPlans :
       GetMetadata(blobName, includeTags, f[1], f[2])
  \/ \E blobName \in BlobNames, f \in Faults : SetMetadata(blobName, f)
  \/ GetContainerClient

Next == ConstructFacade \/ Download \/ UploadAny \/ Other \/ Await

Spec == Init /\ [][Next]_vars

(***************************************************************************)
(* Progress reporting.  Calls made with an onProgress callback: an upload  *)
(* forwards each report of the SDK, a download reports after each chunk it *)
(* reads from the body.                                                    *)
(***************************************************************************)
ProgressEvent(loadedBytes, totalBytes, percentComplete) ==
  [loadedBytes |-> loadedBytes, totalBytes |-> totalBytes, percentComplete |-> percentComplete]

\* Math.round((loadedBytes / totalBytes) * 100), for a totalBytes above 0
RoundPercent(loadedBytes, totalBytes) == (200 * loadedBytes + totalBytes) \div (2 * totalBytes)

\* totalBytes ? Math.round((loadedBytes / totalBytes) * 100) : undefined
DownloadPercent(loadedBytes, totalBytes) ==
  IF totalBytes.defined /\ totalBytes.n # 0
    THEN Number(RoundPercent(loadedBytes, totalBytes.n))
    ELSE NoNumber

\* The loop of streamToBuffer over the chunks of a stream, from chunk k on.
RECURSIVE StreamLoop(_, _, _, _, _, _)
StreamLoop(chunks, k, loadedBytes, totalBytes, buffer, reported) ==
  IF k > Len(chunks) THEN [buffer |-> buffer, events |-> reported]
  ELSE LET loaded == loadedBytes + Len(chunks[k]) IN
       StreamLoop(chunks, k + 1, loaded, totalBytes, buffer \o chunks[k],
                  Append(reported,
                         ProgressEvent(loaded, totalBytes, DownloadPercent(loaded, totalBytes))))

\* streamToBuffer(stream, totalBytes, onProgress): Buffer.concat of the chunks
\* and the events reported on the way.
streamToBuffer(chunks, totalBytes) == StreamLoop(chunks, 1, 0, totalBytes, <<>>, <<>>)

\* buffer.length > 0 ? Math.round((progress.loadedBytes / buffer.length) * 100) : 100
UploadPercent(loadedBytes, length) ==
  IF length > 0 THEN Number(RoundPercent(loadedBytes, length)) ELSE Number(100)

\* The event an upload passes on for a report of the SDK: uploadFromString and
\* uploadFromBuffer scale it against buffer.length, uploadFromFile reports
\* totalBytes and percentComplete undefined.
UploadEvent(op, loadedBytes, length) ==
  IF op = "uploadFromFile"
    THEN ProgressEvent(loadedBytes, NoNumber, NoNumber)
    ELSE ProgressEvent(loadedBytes, Number(length), UploadPercent(loadedBytes, length))

\* Payloads: n bytes 'a'.
Bytes(n) == [i \in 1..n |-> 97]
Text(n) == [i \in 1..n |-> "a"]
PayloadSizes == 0..MaxPayload

\* The ways a transfer of n bytes advances in k steps: the bytes transferred
\* after each step, no step going backwards and the last one reaching n.
Advances(n, k) ==
  {c \in [1..k -> 0..n] : /\ c[k] = n
                          /\ \A i \in 1..(k - 1) : c[i] <= c[i + 1]}
Chunked(data, c) ==
  [i \in 1..Len(c) |-> SubSeq(data, (IF i = 1 THEN 0 ELSE c[i - 1]) + 1, c[i])]

\* The chunks a body may arrive in: empty chunks included, and no chunk at
\* all for an empty body.
ChunkingsUpTo(data, most) ==
  (IF data = <<>> THEN {<<>>} ELSE {})
  \cup UNION {{Chunked(data, c) : c \in Advances(Len(data), k)} : k \in 1..most}
Chunkings(data) == ChunkingsUpTo(data, MaxChunks)

\* The loadedBytes the SDK reports during an upload of n bytes.
UploadReports(n) == UNION {Advances(n, k) : k \in 1..MaxChunks}

\* The total the backend announces in contentLength: none, or any size.
AnnouncedSizes == {NoNumber} \cup {Number(n) : n \in PayloadSizes}

\* uploadFromString, uploadFromBuffer or uploadFromFile of n bytes with
\* options.onProgress, the service accepting the write.
UploadWithProgress(op, blobName, n, reports) ==
  /\ Idle
  /\ LET ensured == EnsureContainer(NoFault)
         data    == Bytes(n)
         arg     == IF op = "uploadFromString" THEN Text(n)
                    ELSE IF op = "uploadFromFile" THEN FilePath ELSE data
         fn      == IF op = "uploadFromFile" THEN "uploadFile" ELSE "uploadData"
         fault   == WriteFault(ensured.exists, blobName, FALSE)
         write   == Call(fn, blobName, [data |-> data, progress |-> TRUE], fault)
     IN IF fault # NoFault
          THEN FinishWith(Settled(op, blobName, arg,
                                  parseAzureError(fault, blobName, containerName, "upload"), <<>>),
                          ensured.issued \o <<write>>, <<>>, blobs, ensured.exists)
          ELSE FinishWith(Settled(op, blobName, arg, NoError, <<>>),
                          ensured.issued \o <<write>>,
                          [i \in 1..Len(reports) |-> UploadEvent(op, reports[i], n)],
                          [blobs EXCEPT ![blobName] = data], ensured.exists)

\* A download of a whole blob with options.onProgress: downloadAsBuffer,
\* downloadAsString and downloadAsJson drain the body with streamToBuffer,
\* downloadToFile counts the chunks in a 'data' handler that reports the same.
DownloadWithProgress(op, blobName, chunks, announced) ==
  /\ Idle
  /\ blobs[blobName] # NoBlob
  /\ LET drained == streamToBuffer(chunks, announced)
         text    == BufferToString(drained.buffer)
         parsed  == JSONParse(text)
         error   == IF op = "downloadAsJson" /\ ~parsed.ok
                      THEN BlobDownloadError(blobName, containerName, RawError("SyntaxError", 0, ""))
                      ELSE NoError
         value   == IF op = "downloadAsString" THEN text
                    ELSE IF op = "downloadAsJson" THEN parsed.value
                    ELSE drained.buffer
         request == Call("download", blobName, DownloadArgs(NoRange), NoFault)
     IN FinishWith(Settled(op, blobName, NoRange, error, value),
                   IF op = "downloadToFile"
                     THEN <<Call("mkdir", FilePath, NoDetail, NoFault), request,
                            Call("createWriteStream", FilePath, NoDetail, NoFault)>>
                     ELSE <<request>>,
                   drained.events, blobs, containerExists)

ProgressUploadOps == {"uploadFromString", "uploadFromBuffer", "uploadFromFile"}

UploadProgress ==
  \E op \in ProgressUploadOps, blobName \in BlobNames, n \in PayloadSizes :
    \E reports \in UploadReports(n) : UploadWithProgress(op, blobName, n, reports)

DownloadProgress ==
  \E op \in {"downloadAsString", "downloadAsBuffer", "downloadAsJson", "downloadToFile"},
     blobName \in BlobNames, announced \in AnnouncedSizes :
    /\ blobs[blobName] # NoBlob
    /\ \E chunks \in Chunkings(blobs[blobName]) :
         DownloadWithProgress(op, blobName, chunks, announced)

NextProgress == ConstructFacade \/ UploadProgress \/ DownloadProgress \/ Await

SpecProgress == Init /\ [][NextProgress]_vars

(***************************************************************************)
(* Concurrent downloads.  Nothing awaits between the calls: each download  *)
(* reads the chunks of its own body as they arrive, in any interleaving    *)
(* with the chunks of the others.                                          *)
(***************************************************************************)
\* Buffer.concat(chunks)
RECURSIVE BufferConcat(_)
BufferConcat(chunks) ==
  IF chunks = <<>> THEN <<>> ELSE Head(chunks) \o BufferConcat(Tail(chunks))

\* A variant in which the calls count their bytes in one counter.
SharedLoadedBytes(c) ==
  LET RECURSIVE Sum(_)
      Sum(k) == IF k = 0 THEN 0 ELSE inflight[k].loadedBytes + Sum(k - 1)
  IN Sum(MaxInFlight)

\* let loadedBytes = 0: a local of the call
LoadedBytes(c) == inflight[c].loadedBytes

\* The body of call c: bytes that tell the calls apart.
StreamedBodies(c) == {[i \in 1..n |-> 96 + c] : n \in 0..MaxStreamed}

\* downloadAsBuffer or downloadToFile with onProgress starts to read its body.
StartDownload(c, op, source, announced) ==
  /\ phase = "ready"
  /\ inflight[c].state = "idle"
  /\ inflight' = [inflight EXCEPT ![c] =
                    [state |-> "reading", op |-> op, source |-> source, next |-> 1,
                     totalBytes |-> announced, loadedBytes |-> 0, chunks |-> <<>>,
                     events |-> <<>>, result |-> <<>>]]
  /\ UNCHANGED <<phase, ctorArgs, ctorError, containerName, options, containerClient,
                 containerExists, blobs, last, calls, events>>

\* The next chunk of call c arrives: the body of the for await loop of
\* streamToBuffer, and the 'data' handler of downloadToFile.
ReceiveChunk(c) ==
  /\ inflight[c].state = "reading"
  /\ inflight[c].next <= Len(inflight[c].source)
  /\ LET chunk  == inflight[c].source[inflight[c].next]
         loaded == LoadedBytes(c) + Len(chunk)
     IN inflight' = [inflight EXCEPT ![c] =
                       [@ EXCEPT !.next = @ + 1,
                                 !.loadedBytes = loaded,
                                 !.chunks = Append(@, chunk),
                                 !.events = Append(@, ProgressEvent(loaded, inflight[c].totalBytes,
                                                      DownloadPercent(loaded, inflight[c].totalBytes)))]]
  /\ UNCHANGED <<phase, ctorArgs, ctorError, containerName, options, containerClient,
                 containerExists, blobs, last, calls, events>>

\* The body of call c ends: the call resolves with Buffer.concat(chunks), or
\* with the file the chunks were piped to.
EndOfData(c) ==
  /\ inflight[c].state = "reading"
  /\ inflight[c].next > Len(inflight[c].source)
  /\ inflight' = [inflight EXCEPT ![c] =
                    [@ EXCEPT !.state = "done", !.result = BufferConcat(inflight[c].chunks)]]
  /\ UNCHANGED <<phase, ctorArgs, ctorError, containerName, options, containerClient,
                 containerExists, blobs, last, calls, events>>

\* The caller takes the result of call c.
Settle(c) ==
  /\ inflight[c].state = "done"
  /\ inflight' = [inflight EXCEPT ![c] = IdleCall]
  /\ UNCHANGED <<phase, ctorArgs, ctorError, containerName, options, containerClient,
                 containerExists, blobs, last, calls, events>>

StartAny ==
  \E c \in InFlight, op \in {"downloadAsBuffer", "downloadToFile"} :
    /\ inflight[c].state = "idle"
    /\ \E body \in StreamedBodies(c) :
         \E source \in ChunkingsUpTo(body, MaxStreamed),
            announced \in {NoNumber, Number(Len(body))} :
           StartDownload(c, op, source, announced)

NextConcurrent ==
  \/ ConstructFacade
  \/ StartAny
  \/ \E c \in InFlight : ReceiveChunk(c)
  \/ \E c \in InFlight : EndOfData(c)
  \/ \E c \in InFlight : Settle(c)

SpecConcurrent == Init /\ [][NextConcurrent]_vars

(***************************************************************************)
(* Properties.                                                             *)
(***************************************************************************)
DownloadOps == {"downloadAsString", "downloadAsBuffer", "downloadAsJson", "downloadToFile"}
UploadOps == {"uploadFromString", "uploadFromBuffer", "uploadFromFile", "uploadJson"}
WriteFns == {"uploadData", "uploadFile"}

\* How many requests of a kind the last call issued.
CountCalls(fns) == Cardinality({i \in 1..Len(calls) : calls[i].fn \in fns})

\* end < start, or a bound that is negative or no integer
IsInvalidRange(r) ==
  /\ r.defined
  /\ \/ r.end < r.start
     \/ r.start < 0 \/ r.end < 0
     \/ ~IsInteger(r.start) \/ ~IsInteger(r.end)

\* C1: a download with a range whose end is below its start, or with a
\* negative or non-integer bound, fails with ConfigurationError and issues no
\* download request.
C1_RangeValidation ==
  (last.op \in DownloadOps /\ IsInvalidRange(last.arg)) =>
    /\ last.error.kind = "ConfigurationError"
    /\ CountCalls({"download"}) = 0

\* JSON.stringify gives no text for the value: it throws, or returns undefined.
Unserializable(v) == JSONStringify(v).threw \/ ~JSONStringify(v).defined

\* C2: uploadJson with a value that has no JSON text fails with
\* ConfigurationError and issues no blob write.
C2_UnserializableJson ==
  (last.op = "uploadJson" /\ Unserializable(last.arg)) =>
    /\ last.error.kind = "ConfigurationError"
    /\ CountCalls(WriteFns) = 0

\* The options the third and fourth argument are documented to give: the third
\* when it is an options object, the fourth when the third is a credential or
\* undefined.
DocumentedOptions(third, fourth) ==
  IF third.kind = "options" THEN AsOptions(third)
  ELSE IF Truthy(fourth) THEN AsOptions(fourth)
  ELSE EmptyOptions

\* C3: the options in effect are the documented ones, and after a construction
\* with (descriptor, name, undefined, {createContainerIfNotExists: true}) an
\* uploadFromString call issues create-if-absent exactly once.
C3_OptionResolution ==
  phase = "ready" =>
    /\ options = DocumentedOptions(ctorArgs.third, ctorArgs.fourth)
    /\ (/\ last.op = "uploadFromString"
        /\ ctorArgs.third = UndefinedArg
        /\ ctorArgs.fourth.createContainerIfNotExists)
         => CountCalls({"createIfNotExists"}) = 1

\* The constructor was called with a descriptor classified as a URL that parses.
UrlClassified ==
  /\ phase # "new"
  /\ IsUrl(ctorArgs.descriptor)
  /\ ~IsConnectionString(ctorArgs.descriptor)
  /\ ParseUrl(ctorArgs.descriptor).valid

Segments == PathParts(ParseUrl(ctorArgs.descriptor))
PathStyleEligible ==
  options.allowPathStyleEndpoints \/ isLocalhostHost(ParseUrl(ctorArgs.descriptor).hostname)
ApplicableMaximum == IF PathStyleEligible THEN 2 ELSE 1

\* C4: a URL descriptor with more non-empty path segments than the applicable
\* maximum (2 when path-style eligible, otherwise 1) makes the construction
\* fail with ConfigurationError, whatever the container name, the credential,
\* the options and the query string.
C4_BlobLevelUrlRejected ==
  (UrlClassified /\ Len(Segments) > ApplicableMaximum) =>
    (phase = "failed" /\ ctorError = "ConfigurationError")

C4_Witness ==
  /\ UrlClassified
  /\ PathStyleEligible
  /\ Len(Segments) = 3
  /\ Includes(ctorArgs.descriptor, "?sig")
  /\ ctorArgs.third = TokenCredential
  /\ ctorError = "ConfigurationError"

C6_MaxResults ==
  (last.op = "list" /\ last.status = "resolved" /\ last.arg.maxResults.defined) =>
    Len(last.value) <= last.arg.maxResults.n

\* C7: every error a facade operation rejects with is a BlobStorageError or one
\* of its subclasses.
C7_TypedErrors == last.status = "rejected" => last.error.kind \in TypedKinds

\* C8: every failed construction fails with ConfigurationError, and a
\* construction issues no request.
C8_ConstructionFailure ==
  /\ phase = "failed" => ctorError = "ConfigurationError"
  /\ phase # "ready" => calls = <<>>

\* The errors parseContainerError gives.
ContainerErrorKinds == {"ContainerOperationError", "ContainerNotFoundError", "AuthenticationError"}

\* uploadJson was called with a value JSON.stringify throws on.
SerializationThrew == last.op = "uploadJson" /\ JSONStringify(last.arg).threw

\* No call but an upload with the option set issues create-if-absent.
CreateOnlyForUploads ==
  (last.op \notin UploadOps \/ ~options.createContainerIfNotExists) =>
    CountCalls({"createIfNotExists"}) = 0

C10_Exists ==
  last.op = "exists" =>
    /\ last.error.kind # "BlobNotFoundError"
    /\ calls[1].fault = NoFault =>
         /\ last.status = "resolved"
         /\ last.value = (containerExists /\ blobs[last.blobName] # NoBlob)

C10_Witness ==
  /\ last.op = "exists"
  /\ containerExists
  /\ blobs[last.blobName] = NoBlob
  /\ \E n \in BlobNames : blobs[n] # NoBlob
  /\ last.status = "resolved"
  /\ last.value = FALSE

\* C11: delete and downloadAsString of a blob the service reports absent reject
\* with BlobNotFoundError whose blobName is the name passed and whose
\* containerName is the one given at construction; a delete that resolves
\* leaves the blob absent, and an exists call on an absent blob resolves to false.
C11_BlobNotFound ==
  /\ (/\ last.op \in {"delete", "downloadAsString"}
      /\ calls[1].fault = BlobNotFound) =>
       /\ last.status = "rejected"
       /\ last.error.kind = "BlobNotFoundError"
       /\ last.error.blobName = last.blobName
       /\ last.error.containerName = ctorArgs.containerName
  /\ (last.op = "delete" /\ last.status = "resolved") => blobs[last.blobName] = NoBlob
  /\ (last.op = "exists" /\ last.status = "resolved" /\ blobs[last.blobName] = NoBlob) =>
       last.value = FALSE

C11_Witness ==
  /\ last.op = "delete"
  /\ containerExists
  /\ calls[1].fault = BlobNotFound
  /\ last.error.kind = "BlobNotFoundError"
  /\ last.error.blobName = last.blobName
  /\ \E n \in BlobNames : blobs[n] # NoBlob

\* What a download of the whole blob is served when nothing fails.
WholeBlob(blobName) ==
  {r \in Responses(blobName, DownloadArgs(NoRange)) :
     r.fault = NoFault /\ r.hasBody /\ ~r.streamFails}

\* A value made of numbers, null and arrays of such values.
RECURSIVE JsonRepresentable(_)
JsonRepresentable(v) ==
  \/ v.t \in {"number", "null"}
  \/ v.t = "array" /\ \A i \in 1..Len(v.items) : JsonRepresentable(v.items[i])

\* The download that follows a resolved upload of the same name gives back
\* what a string or a buffer upload was given.
TextRoundTrip ==
  /\ (last.op = "uploadFromString" /\ last.status = "resolved") =>
       \A r \in WholeBlob(last.blobName) :
         /\ Drained(last.blobName, r).error = NoError
         /\ Drained(last.blobName, r).body = BufferFrom(last.arg)
         /\ BufferToString(Drained(last.blobName, r).body) = last.arg
  /\ (last.op = "uploadFromBuffer" /\ last.status = "resolved") =>
       \A r \in WholeBlob(last.blobName) :
         /\ Drained(last.blobName, r).error = NoError
         /\ Drained(last.blobName, r).body = last.arg

\* uploadJson resolved, and the value is one downloadAsJson has to give back.
JsonRoundTrip(values) ==
  (last.op = "uploadJson" /\ last.status = "resolved" /\ last.arg \in values) =>
    \A r \in WholeBlob(last.blobName) :
      LET parsed == JSONParse(BufferToString(Drained(last.blobName, r).body)) IN
      parsed.ok /\ parsed.value = last.arg

Reported == last.op \in ProgressUploadOps \cup DownloadOps /\ events # <<>>
PayloadSize == Len(blobs[last.blobName])
IsPercent(x) == x.defined /\ x.n \in 0..100

\* C13: for every upload and every download made with a progress callback,
\* the loadedBytes of the last reported event is the size of the payload and
\* every reported percentComplete is a number between 0 and 100, whatever
\* total the backend announced and however the payload was split.
C13_ProgressInvariants ==
  Reported =>
    /\ events[Len(events)].loadedBytes = PayloadSize
    /\ \A i \in 1..Len(events) : IsPercent(events[i].percentComplete)

\* C14: for a payload of zero bytes, every event of uploadFromString, of
\* uploadFromBuffer and of a download reports percentComplete 100.
C14_ZeroBytePayload ==
  (/\ Reported
   /\ last.op \in {"uploadFromString", "uploadFromBuffer"} \cup DownloadOps
   /\ PayloadSize = 0) =>
     \A i \in 1..Len(events) : events[i].percentComplete = Number(100)

\* C15: every progress event of uploadFromString, uploadFromBuffer and
\* uploadFromFile carries totalBytes equal to the size of the payload and
\* percentComplete equal to round(loadedBytes / totalBytes * 100).
C15_UploadProgressScaled ==
  (Reported /\ last.op \in ProgressUploadOps) =>
    \A i \in 1..Len(events) :
      /\ events[i].totalBytes = Number(PayloadSize)
      /\ events[i].percentComplete = UploadPercent(events[i].loadedBytes, PayloadSize)

\* The download requests of the last call, and the bytes start..end of a blob
\* as far as it has them.
DownloadRequests == {i \in 1..Len(calls) : calls[i].fn = "download"}
IsValidRange(r) == r.defined /\ ~IsInvalidRange(r)
RangeBytes(data, r) ==
  SubSeq(data, ToInt(r.start) + 1,
         IF ToInt(r.end) + 1 < Len(data) THEN ToInt(r.end) + 1 ELSE Len(data))
ContentOf(op, bytes) ==
  IF op = "downloadAsString" THEN BufferToString(bytes)
  ELSE IF op = "downloadAsJson" THEN JSONParse(BufferToString(bytes)).value
  ELSE bytes

\* C16: for a valid range each download asks the backend for offset = start
\* and count = end - start + 1, and with no range for the whole blob with no
\* offset and no count; the content it returns is bytes start..end, both
\* inclusive, of the stored blob.
C16_InclusiveRange ==
  last.op \in DownloadOps =>
    /\ \A i \in DownloadRequests :
         /\ IsValidRange(last.arg) =>
              /\ calls[i].detail.ranged
              /\ calls[i].detail.offset = last.arg.start
              /\ calls[i].detail.count = last.arg.end - last.arg.start + Num(1)
         /\ ~last.arg.defined => ~calls[i].detail.ranged
    /\ (last.status = "resolved" /\ IsValidRange(last.arg)) =>
         last.value = ContentOf(last.op, RangeBytes(blobs[last.blobName], last.arg))
    /\ (last.status = "resolved" /\ ~last.arg.defined) =>
         last.value = ContentOf(last.op, blobs[last.blobName])

C16_Witness ==
  /\ last.op = "downloadAsBuffer"
  /\ last.status = "resolved"
  /\ last.arg = Range(Num(0), Num(1))
  /\ blobs[last.blobName] = <<97, 195, 169>>
  /\ last.value = <<97, 195>>
  /\ calls[1].detail.count = Num(2)

\* The operations on one blob, the category each passes to parseAzureError,
\* and the requests of the last call that failed on the blob's side.
BlobOps == DownloadOps \cup UploadOps \cup {"exists", "delete", "getMetadata", "setMetadata"}
Category(op) ==
  IF op \in UploadOps THEN "upload" ELSE IF op \in DownloadOps THEN "download" ELSE "other"
FailedBlobRequests ==
  {i \in 1..Len(calls) : calls[i].fault # NoFault /\ calls[i].fn # "createIfNotExists"}

\* The decision table of the claim.
BlobErrorKind(statusCode, code, category) ==
  IF statusCode = 404 /\ code = "ContainerNotFound" THEN "ContainerNotFoundError"
  ELSE IF statusCode = 404 THEN "BlobNotFoundError"
  ELSE IF statusCode \in {401, 403} THEN "AuthenticationError"
  ELSE IF category = "upload" THEN "BlobUploadError"
  ELSE IF category = "download" THEN "BlobDownloadError"
  ELSE "BlobStorageError"

\* C17: a failure of a request of a blob operation is translated by the table
\* over (status code, backend code, category): 404 with code ContainerNotFound
\* gives ContainerNotFoundError, any other 404 BlobNotFoundError, 401 and 403
\* AuthenticationError, anything else BlobUploadError for an upload,
\* BlobDownloadError for a download and the generic kind with code
\* UNKNOWN_ERROR for exists, delete, getMetadata and setMetadata.
C17_BlobErrorTable ==
  last.op \in BlobOps =>
    \A i \in FailedBlobRequests :
      /\ last.status = "rejected"
      /\ last.error.kind =
           BlobErrorKind(calls[i].fault.statusCode, calls[i].fault.code, Category(last.op))
      /\ last.error.kind = "BlobStorageError" =>
           last.op \in {"exists", "delete", "getMetadata", "setMetadata"}
           /\ last.error.code = "UNKNOWN_ERROR"

C17_Witness ==
  /\ last.op = "delete"
  /\ ~containerExists
  /\ Len(calls) = 1
  /\ calls[1].fault = NotFoundNoCode
  /\ last.error.kind = "BlobNotFoundError"

\* The requests on the container and the label each is reported under.
ContainerFns == {"createIfNotExists", "listBlobsFlat"}
OperationLabel(fn) == IF fn = "listBlobsFlat" THEN "list blobs" ELSE "create container"
FailedContainerRequests ==
  {i \in 1..Len(calls) : calls[i].fault # NoFault /\ calls[i].fn \in ContainerFns}

\* C18: a failure of list or of the container's creation is translated by
\* parseContainerError: 404 gives ContainerNotFoundError whatever the backend
\* code, 401 and 403 AuthenticationError, anything else
\* ContainerOperationError with the container name and the label 'list blobs'
\* or 'create container'; a failure of list is never a BlobNotFoundError, a
\* BlobDownloadError or the generic kind.
C18_ContainerErrorTable ==
  /\ \A i \in FailedContainerRequests :
       /\ last.status = "rejected"
       /\ last.error.kind =
            (IF calls[i].fault.statusCode = 404 THEN "ContainerNotFoundError"
             ELSE IF calls[i].fault.statusCode \in {401, 403} THEN "AuthenticationError"
             ELSE "ContainerOperationError")
       /\ last.error.kind = "ContainerOperationError" =>
            /\ last.error.containerName = ctorArgs.containerName
            /\ last.error.operation = OperationLabel(calls[i].fn)
  /\ (last.op = "list" /\ last.status = "rejected") =>
       last.error.kind \notin {"BlobNotFoundError", "BlobDownloadError", "BlobStorageError"}

C18_Witness ==
  /\ last.op = "list"
  /\ containerExists
  /\ calls[1].fault = NotFoundNoCode
  /\ last.error.kind = "ContainerNotFoundError"

\* C19: every error the facade emits keeps the failure it translates as
\* originalError and carries the container name, the blob name for an
\* operation on a blob, and the operation label for an operation on the
\* container.
C19_ErrorContext ==
  (last.op # "none" /\ last.status = "rejected") =>
    /\ last.error.originalError # NoCause
    /\ last.error.containerName = ctorArgs.containerName
    /\ last.op \in BlobOps /\ FailedContainerRequests = {} =>
         last.error.blobName = last.blobName
    /\ FailedContainerRequests # {} =>
         \A i \in FailedContainerRequests : last.error.operation = OperationLabel(calls[i].fn)

\* C20: once the client is constructed, no step of any operation, succeeding
\* or failing, changes its container handle (the credential in it), its
\* container name or its options, and getContainerClient returns that handle.
C20_EndpointImmutable ==
  [][phase = "ready" =>
       /\ UNCHANGED <<phase, containerClient, containerName, options, ctorArgs>>
       /\ last'.op = "getContainerClient" => last'.value = containerClient]_vars

C20_Witness ==
  /\ last.op = "getContainerClient"
  /\ last.value = containerClient
  /\ containerClient # NoHandle
  /\ containerClient = NewSimpleBlobClient(ctorArgs.descriptor, ctorArgs.containerName,
                                           ctorArgs.third, ctorArgs.fourth).containerClient
  /\ \E n \in BlobNames : blobs[n] # NoBlob

\* The step is an upload op of blobName made with the options uopts.
UploadStep(op, blobName, uopts) ==
  \E f \in FaultPlans :
    \/ /\ op = "uploadFromString"
       /\ \E content \in StringInputs : UploadFromString(blobName, content, uopts, f[1], f[2])
    \/ /\ op = "uploadFromBuffer"
       /\ \E buffer \in BufferInputs : UploadFromBuffer(blobName, buffer, uopts, f[1], f[2])
    \/ /\ op = "uploadFromFile"
       /\ \E file \in FileStates : UploadFromFile(blobName, FilePath, file, uopts, f[1], f[2])
    \/ /\ op = "uploadJson"
       /\ \E data \in JsonInputs : UploadJson(blobName, data, uopts, f[1], f[2])

\* What the step of an upload made with uopts does to the store.
ConditionalWrite(uopts) ==
  LET writes == {i \in 1..Len(calls') : calls'[i].fn \in WriteFns} IN
  /\ \A i \in writes : calls'[i].detail.ifNoneMatch = (uopts.overwrite = "false")
  /\ (uopts.overwrite = "false" /\ blobs[last'.blobName] # NoBlob) =>
       /\ last'.status = "rejected"
       /\ blobs' = blobs
  /\ (uopts.overwrite # "false" /\ last'.status = "resolved") =>
       /\ writes # {}
       /\ \A i \in writes : blobs'[last'.blobName] = calls'[i].detail.data

\* C21: an upload with overwrite = false is issued as a write conditional on
\* the blob not existing, so on an existing blob it fails and leaves the
\* store as it was; with overwrite true or omitted the write is unconditional
\* and replaces the stored content.
C21_ConditionalWrite ==
  [][\A uopts \in UploadOptionsInputs :
       (last'.op \in UploadOps /\ UploadStep(last'.op, last'.blobName, uopts)) =>
         ConditionalWrite(uopts)]_vars

C21_Witness ==
  /\ last.op = "uploadFromString"
  /\ last.status = "rejected"
  /\ last.error.kind = "BlobUploadError"
  /\ Len(calls) = 1
  /\ calls[1].fn = "uploadData"
  /\ calls[1].detail.ifNoneMatch
  /\ calls[1].fault = BlobAlreadyExists
  /\ blobs[last.blobName] # NoBlob
  /\ blobs[last.blobName] # calls[1].detail.data

\* The content type of the claim: the one provided, else the type of the
\* name's extension (what follows its last dot) when the table knows it, else
\* the fallback of the operation.
Extension(name) ==
  LET parts == Split(name, ".") IN IF Len(parts) > 1 THEN parts[Len(parts)] ELSE <<>>
DocumentedContentType(op, blobName, uopts) ==
  IF uopts.contentType # "" THEN uopts.contentType
  ELSE IF Extension(blobName) # <<>> /\ MimeType(Extension(blobName)) # ""
    THEN MimeType(Extension(blobName))
  ELSE IF op = "uploadFromString" THEN "text/plain"
  ELSE "application/octet-stream"

\* C22: the content type of an upload is options.contentType when provided,
\* else the MIME type of the blob name's extension when it is a known one,
\* else text/plain for uploadFromString and application/octet-stream for
\* uploadFromBuffer and uploadFromFile; a name with no extension gets the
\* fallback.
C22_ContentType ==
  [][\A uopts \in UploadOptionsInputs :
       (/\ last'.op \in {"uploadFromString", "uploadFromBuffer", "uploadFromFile"}
        /\ UploadStep(last'.op, last'.blobName, uopts)) =>
         \A i \in 1..Len(calls') :
           calls'[i].fn \in WriteFns =>
             calls'[i].detail.blobContentType =
               DocumentedContentType(last'.op, last'.blobName, uopts)]_vars

\* The host a URL names: an IPv6 literal is written in brackets in the URL.
NamedHost(hostname) == IF hostname = "[::1]" THEN "::1" ELSE hostname
DocumentedEligible ==
  \/ options.allowPathStyleEndpoints
  \/ NamedHost(ParseUrl(ctorArgs.descriptor).hostname) \in
       {"localhost", "127.0.0.1", "::1", "0.0.0.0", "host.docker.internal"}
AccountRoot ==
  /\ phase = "ready"
  /\ containerClient.built = "BlobServiceClient"
  /\ containerClient.container = ctorArgs.containerName
ContainerUrl(segment) ==
  IF segment = ctorArgs.containerName
    THEN phase = "ready" /\ containerClient.built = "ContainerClient"
    ELSE phase = "failed" /\ ctorError = "ConfigurationError"

\* C23: a URL is path-style eligible iff allowPathStyleEndpoints is set or its
\* host is localhost, 127.0.0.1, ::1, 0.0.0.0 or host.docker.internal; an
\* eligible URL with zero or one path segment is an account root and with two
\* a container URL whose second segment must be the container name; a URL that
\* is not eligible is an account root with zero segments and a container URL
\* with one.
C23_PathStyle ==
  UrlClassified =>
    IF DocumentedEligible
      THEN /\ Len(Segments) \in {0, 1} => AccountRoot
           /\ Len(Segments) = 2 => ContainerUrl(Segments[2])
      ELSE /\ Len(Segments) = 0 => AccountRoot
           /\ Len(Segments) = 1 => ContainerUrl(Segments[1])

\* What downloadAsJson does with the answer resp of the backend.
JsonFailureTranslated(resp) ==
  LET d      == Drained(last'.blobName, resp)
      parsed == JSONParse(BufferToString(d.body))
  IN /\ last'.error.kind # "SyntaxError"
     /\ resp.fault = BlobNotFound =>
          last'.error = BlobNotFoundError(last'.blobName, containerName, BlobNotFound)
     /\ (d.error = NoError /\ ~parsed.ok) =>
          /\ last'.status = "rejected"
          /\ last'.error.kind = "BlobDownloadError"
          /\ last'.error.blobName = last'.blobName
          /\ last'.error.containerName = ctorArgs.containerName
          /\ last'.error.originalError.name = "SyntaxError"
     /\ (d.error = NoError /\ parsed.ok) => last'.status = "resolved"

\* C24: downloadAsJson turns a failure to parse the downloaded text into a
\* BlobDownloadError with the blob name, the container name and the parse
\* error as cause; no raw syntax error reaches the caller, and a
\* BlobNotFoundError of the download is passed on as it is.
C24_JsonParseFailure ==
  [][last'.op = "downloadAsJson" =>
       \A resp \in Responses(last'.blobName, DownloadArgs(last'.arg)) :
         DownloadAsJson(last'.blobName, last'.arg, resp) => JsonFailureTranslated(resp)]_vars

C24_Witness ==
  /\ last.op = "downloadAsJson"
  /\ last.status = "rejected"
  /\ calls[1].fault = NoFault
  /\ last.error.kind = "BlobDownloadError"
  /\ last.error.originalError.name = "SyntaxError"
  /\ last.error.blobName = last.blobName
  /\ blobs[last.blobName] = <<97, 195, 169>>

\* The classes of the claim, and the credential the caller supplied.
LooksLikeConnectionString(d) ==
  \E i \in 1..Len(d) : d[i] \in {"AccountName=", "UseDevelopmentStorage=true"}
LooksLikeUrl(d) == Len(d) > 0 /\ d[1] \in {"http://", "https://"}
SuppliedCredential ==
  IF ctorArgs.third.kind \in {"token", "sharedKey"} THEN ctorArgs.third ELSE UndefinedArg

\* C25: the descriptor is classified by the first match of connection string,
\* URL, bare account name: one that contains AccountName= or
\* UseDevelopmentStorage=true is a connection string even when it starts with
\* a scheme (no check of its path or of the container name, no use of the
\* credential); one that is neither is an account name, resolved to
\* https://<name>.blob.core.windows.net with the supplied credential, or the
\* default one when none is supplied.
C25_ClassificationOrder ==
  phase # "new" =>
    /\ LooksLikeConnectionString(ctorArgs.descriptor) =>
         /\ phase = "ready"
         /\ containerClient =
              Handle("fromConnectionString", ctorArgs.descriptor, UndefinedArg,
                     ctorArgs.containerName)
    /\ (~LooksLikeConnectionString(ctorArgs.descriptor) /\ ~LooksLikeUrl(ctorArgs.descriptor)) =>
         /\ phase = "ready"
         /\ containerClient =
              Handle("BlobServiceClient",
                     <<"https://">> \o ctorArgs.descriptor \o <<".blob.core.windows.net">>,
                     IF SuppliedCredential # UndefinedArg
                       THEN SuppliedCredential ELSE DefaultAzureCredential,
                     ctorArgs.containerName)

C25_Witness ==
  /\ phase = "ready"
  /\ LooksLikeUrl(ctorArgs.descriptor)
  /\ LooksLikeConnectionString(ctorArgs.descriptor)
  /\ Len(PathParts(ParseUrl(ctorArgs.descriptor))) = 2
  /\ ctorArgs.third = TokenCredential
  /\ containerClient.built = "fromConnectionString"
  /\ containerClient.credential = UndefinedArg

\* The bytes of the first k chunks, and how many they are.
RECURSIVE Concatenation(_, _)
Concatenation(chunks, k) ==
  IF k = 0 THEN <<>> ELSE Concatenation(chunks, k - 1) \o chunks[k]
Received(chunks, k) == Len(Concatenation(chunks, k))

\* The percentComplete of the specification: round(loaded / total * 100) for
\* a known total, 100 for a total of zero bytes, omitted for an unknown total.
DocumentedPercent(loadedBytes, totalBytes) ==
  IF ~totalBytes.defined THEN NoNumber
  ELSE IF totalBytes.n = 0 THEN Number(100)
  ELSE Number((200 * loadedBytes + totalBytes.n) \div (2 * totalBytes.n))

\* What a download that read the chunks, with the total announced, reported
\* and returned.
Accumulated(chunks, announced) ==
  /\ Len(events') = Len(chunks)
  /\ \A k \in 1..Len(chunks) :
       /\ events'[k].loadedBytes = Received(chunks, k)
       /\ events'[k].totalBytes = announced
       /\ events'[k].percentComplete = DocumentedPercent(Received(chunks, k), announced)
  /\ \A k \in 1..(Len(chunks) - 1) : events'[k].loadedBytes <= events'[k + 1].loadedBytes
  /\ last'.op \in {"downloadAsBuffer", "downloadToFile"} =>
       last'.value = Concatenation(chunks, Len(chunks))

\* C26: streamToBuffer takes the chunks in the order they arrive and resolves
\* with their concatenation in that order; with a callback it reports one
\* event per chunk, after the chunk is counted, whose loadedBytes is the sum
\* of the lengths of the chunks received so far and whose percentComplete is
\* round(loadedBytes / totalBytes * 100) when the total is known and omitted
\* otherwise.
C26_StreamAccumulation ==
  [][last'.op \in DownloadOps =>
       \A announced \in AnnouncedSizes :
         \A chunks \in Chunkings(blobs[last'.blobName]) :
           DownloadWithProgress(last'.op, last'.blobName, chunks, announced) =>
             Accumulated(chunks, announced)]_vars

\* The step is the download op of blobName with the range, answered by resp.
DownloadStep(op, blobName, range, resp) ==
  \/ op = "downloadAsString" /\ DownloadAsString(blobName, range, resp)
  \/ op = "downloadAsBuffer" /\ DownloadAsBuffer(blobName, range, resp)
  \/ op = "downloadAsJson" /\ DownloadAsJson(blobName, range, resp)
  \/ op = "downloadToFile" /\ DownloadToFile(blobName, FilePath, range, FALSE, resp)

\* C27: an error that is already typed when it is raised inside an operation
\* reaches the caller as it is: the BlobDownloadError raised for a response
\* without a body is the error of the call, with no cause of its own, and no
\* error of any call wraps a typed error.
C27_TypedErrorsPassThrough ==
  [][/\ last'.error.originalError.name \notin TypedKinds
     /\ last'.op \in DownloadOps =>
          \A resp \in Responses(last'.blobName, DownloadArgs(last'.arg)) :
            (/\ resp.fault = NoFault
             /\ ~resp.hasBody
             /\ DownloadStep(last'.op, last'.blobName, last'.arg, resp)) =>
              last'.error = BlobDownloadError(last'.blobName, containerName, NoCause)]_vars

C27_Witness ==
  /\ last.op = "downloadAsJson"
  /\ last.status = "rejected"
  /\ calls[1].fault = NoFault
  /\ blobs[last.blobName] # NoBlob
  /\ last.error = BlobDownloadError(last.blobName, containerName, NoCause)

\* C28: list with maxResults = N, N at least 1, stops once N items are
\* collected: it takes no further item from the backend listing, and it
\* returns the first N items of the listing in the backend's order.
C28_LazyListing ==
  (/\ last.op = "list"
   /\ last.status = "resolved"
   /\ last.arg.maxResults.defined
   /\ last.arg.maxResults.n >= 1) =>
    LET n       == last.arg.maxResults.n
        listing == Listing(calls[1].detail.prefix)
    IN /\ Len(last.value) = (IF Len(listing) < n THEN Len(listing) ELSE n)
       /\ \A i \in 1..Len(last.value) : last.value[i].name = listing[i]
       /\ Len(last.value) = n => calls[1].detail.pulled <= n

\* The functions the last call invoked, in order.
CallOrder == [i \in 1..Len(calls) |-> calls[i].fn]
IsPrefix(s, t) == Len(s) <= Len(t) /\ s = SubSeq(t, 1, Len(s))

\* C29: downloadToFile ensures the parent directory, then requests the blob,
\* and opens the destination file only after the backend returned a body: the
\* file is never opened before the directory exists, and when the request
\* fails or returns no body the file is not opened at all.
C29_DownloadToFileOrder ==
  last.op = "downloadToFile" =>
    LET opens == {i \in 1..Len(calls) : calls[i].fn = "createWriteStream"} IN
    /\ Len(calls) >= 1
    /\ IsPrefix(CallOrder, <<"mkdir", "download", "createWriteStream">>)
    /\ \A i \in opens : \A j \in 1..(i - 1) : calls[j].fault = NoFault
    /\ (\E j \in 1..Len(calls) : calls[j].fault # NoFault) => opens = {}
    /\ last.error = BlobDownloadError(last.blobName, containerName, NoCause) => opens = {}

C29_Witness ==
  /\ last.op = "downloadToFile"
  /\ Len(calls) = 2
  /\ calls[1].fn = "mkdir"
  /\ calls[1].fault = NoFault
  /\ calls[2].fn = "download"
  /\ calls[2].fault = BlobNotFound
  /\ last.error.kind = "BlobNotFoundError"

\* C30: when downloads run concurrently on one client with their chunks
\* interleaved in any order, every event of a call reports the running byte
\* count of that call's own chunks and its result is the concatenation of its
\* own chunks: no counter and no buffer is shared.
C30_Independence ==
  \A c \in InFlight :
    inflight[c].state # "idle" =>
      /\ Len(inflight[c].events) = inflight[c].next - 1
      /\ \A k \in 1..Len(inflight[c].events) :
           inflight[c].events[k].loadedBytes = Received(inflight[c].source, k)
      /\ inflight[c].state = "done" =>
           inflight[c].result = Concatenation(inflight[c].source, Len(inflight[c].source))

C30_Witness ==
  /\ inflight[1].state = "reading"
  /\ inflight[1].next = 2
  /\ Len(inflight[1].source) = 2
  /\ inflight[1].events[1].loadedBytes = 1
  /\ inflight[2].state = "done"
  /\ inflight[2].result = <<98, 98>>
  /\ Len(inflight[2].events) = 2

====
